---- MODULE Spec2Model ----
(***************************************************************************)
(* Model of the R2 quota controller worker (src/src/index.ts).             *)
(*                                                                         *)
(* The file holds two versions of the worker: the legacy single-metric     *)
(* controller (lines 1-306) and the multi-metric controller (lines         *)
(* 308-850).  Both are modelled; the variable impl says which one runs.    *)
(*                                                                         *)
(* JavaScript values are records with a tag t:                             *)
(*   [t |-> "undefined"], [t |-> "num", n |-> 5], [t |-> "nan"] (any       *)
(*   non-finite number).  Environment strings are records with a kind k.   *)
(* Numbers are integers: Math.floor(q * 0.8) of an integer q below 2^53 is *)
(* (q * 8) \div 10 in IEEE doubles as well, since 0.8 and 0.9 round up.    *)
(***************************************************************************)
EXTENDS Integers, Sequences, FiniteSets, TLC

VARIABLES
  impl,     \* "legacy" | "multi": which runQuotaController is deployed
  env,      \* the worker's environment bindings (fixed per deployment)
  kv,       \* STATE_KV[STATE_KEY]: the persisted snapshot, or NoSnapshot
  live,     \* the access controller's status of the key
  inv,      \* per invocation: its position and its local variables
  fnArgs,   \* pure-function specifications: the arguments drawn in Init
  fnRet     \* pure-function specifications: the value returned

vars == <<impl, env, kv, live, inv, fnArgs, fnRet>>

----------------------------------------------------------------------------
(* Bounds of the model.                                                    *)

\* storage usage and byte thresholds range over 0..MaxBytes
MaxBytes == 4
\* request counts tried beside the defaults range over 0..MaxRequests
MaxRequests == 2
\* longest metric list handed to the evaluator as a pure function
MaxMetrics == 2
\* usage and threshold levels of those metric lists range over 0..MaxLevel
MaxLevel == 3

----------------------------------------------------------------------------
(* JavaScript values.                                                      *)

Undefined == [t |-> "undefined", n |-> 0]
NaN == [t |-> "nan", n |-> 0]
Num(n) == [t |-> "num", n |-> n]

isFinite(x) == x.t = "num"
isDefined(x) == x.t # "undefined"

\* Math.floor(q * tenths / 10) for an integer q >= 0
MathFloorTimes(q, tenths) == (q * tenths) \div 10

(* Environment strings.  NoValue is an unset binding or the empty string   *)
(* (both falsy); Digits(n) is the text "n"; Sized(n, u) is "n" followed by *)
(* a unit; Minus(n) is "-n"; Junk is text that is no number at all.        *)
NoValue == [k |-> "unset", n |-> 0, u |-> ""]
Digits(n) == [k |-> "digits", n |-> n, u |-> ""]
Sized(n, u) == [k |-> "digits", n |-> n, u |-> u]
Minus(n) == [k |-> "minus", n |-> n, u |-> ""]
Junk == [k |-> "junk", n |-> 0, u |-> ""]

truthy(value) == value.k # "unset"

multipliers(unit) ==
  CASE unit = "b" -> 1
    [] unit = "kb" -> 1024
    [] unit = "mb" -> 1024 * 1024
    [] unit = "gb" -> 1024 * 1024 * 1024
    [] unit = "tb" -> 1024 * 1024 * 1024 * 1024
    [] unit = "pb" -> 1024 * 1024 * 1024 * 1024 * 1024

\* parseSizeToBytes of a string: NaN unless /^\d+\s*(b|kb|mb|gb|tb|pb)?$/i
parseSizeToBytes(value) ==
  IF ~truthy(value) THEN NaN
  ELSE IF value.k = "digits" /\ value.u = "" THEN Num(value.n)
  ELSE IF value.k = "digits" THEN Num(value.n * multipliers(value.u))
  ELSE NaN

\* Number(value) of a string: a unit suffix is not a number, a sign is
jsNumber(value) ==
  IF value.k = "digits" /\ value.u = "" THEN Num(value.n)
  ELSE IF value.k = "minus" THEN Num(0 - value.n)
  ELSE NaN

----------------------------------------------------------------------------
(* Threshold resolver of the multi-metric controller.  A thrown Error is   *)
(* the value Threw.                                                        *)

Threw == [t |-> "throw", n |-> 0]
isThrow(x) == x.t = "throw"

CLASS_A_DEFAULT == 1000000
CLASS_B_DEFAULT == 10000000

parseOptionalSize(value) ==
  IF ~truthy(value) THEN Undefined
  ELSE LET parsed == parseSizeToBytes(value)
       IN IF ~isFinite(parsed) \/ parsed.n <= 0 THEN Threw ELSE parsed

parseOptionalNumber(value, defaultValue) ==
  IF ~truthy(value) THEN defaultValue
  ELSE LET parsed == jsNumber(value)
       IN IF ~isFinite(parsed) \/ parsed.n <= 0 THEN Threw ELSE parsed

\* mutant of determineReenable: an override above the quota is kept as it is
determineReenable_noClamp(quota, override) ==
  IF isDefined(override)
  THEN IF ~isFinite(override) \/ override.n < 0 THEN Threw ELSE override
  ELSE IF ~isDefined(quota) THEN Undefined
       ELSE Num(MathFloorTimes(quota.n, 8))

determineReenable(quota, override) ==
  IF isDefined(override)
  THEN IF ~isFinite(override) \/ override.n < 0 THEN Threw
       ELSE IF isDefined(quota) /\ override.n > quota.n
            THEN Num(MathFloorTimes(quota.n, 9))
            ELSE override
  ELSE IF ~isDefined(quota) THEN Undefined
       ELSE Num(MathFloorTimes(quota.n, 8))

MetricThreshold(name, quota, reenable) ==
  [name |-> name, usage |-> Undefined, quota |-> quota, reenable |-> reenable]

(* normaliseThresholds(env): the six parses run first, in source order,    *)
(* then the three determineReenable calls; the first throw aborts.         *)
normaliseThresholds(e) ==
  LET storageQuota == parseOptionalSize(e.QUOTA_BYTES)
      storageReenable == parseOptionalSize(e.REENABLE_THRESHOLD)
      classAQuota == parseOptionalNumber(e.CLASS_A_QUOTA, Num(CLASS_A_DEFAULT))
      classAReenable == parseOptionalNumber(e.CLASS_A_REENABLE_THRESHOLD, Undefined)
      classBQuota == parseOptionalNumber(e.CLASS_B_QUOTA, Num(CLASS_B_DEFAULT))
      classBReenable == parseOptionalNumber(e.CLASS_B_REENABLE_THRESHOLD, Undefined)
      parsed == <<storageQuota, storageReenable, classAQuota, classAReenable,
                  classBQuota, classBReenable>>
  IN IF \E i \in 1..6 : isThrow(parsed[i])
     THEN [threw |-> TRUE, thresholds |-> <<>>]
     ELSE LET rS == determineReenable(storageQuota, storageReenable)
              rA == determineReenable(classAQuota, classAReenable)
              rB == determineReenable(classBQuota, classBReenable)
          IN IF isThrow(rS) \/ isThrow(rA) \/ isThrow(rB)
             THEN [threw |-> TRUE, thresholds |-> <<>>]
             ELSE [threw |-> FALSE,
                   thresholds |-> << MetricThreshold("storage", storageQuota, rS),
                                     MetricThreshold("classA", classAQuota, rA),
                                     MetricThreshold("classB", classBQuota, rB) >>]

(* Threshold resolution of the legacy controller (lines 68-91): quota and  *)
(* re-enable threshold are parsed before the credential checks, validated  *)
(* after them.                                                             *)
legacyThresholds(e) ==
  LET quotaBytes == parseSizeToBytes(e.QUOTA_BYTES)
      parsedReenable ==
        IF truthy(e.REENABLE_THRESHOLD)
        THEN parseSizeToBytes(e.REENABLE_THRESHOLD)
        ELSE IF isFinite(quotaBytes) THEN Num(MathFloorTimes(quotaBytes.n, 8))
             ELSE NaN
  IN IF ~isFinite(quotaBytes) \/ quotaBytes.n <= 0
     THEN [threw |-> TRUE, thresholds |-> <<>>]
     ELSE IF ~isFinite(parsedReenable) \/ parsedReenable.n < 0
     THEN [threw |-> TRUE, thresholds |-> <<>>]
     ELSE [threw |-> FALSE,
           thresholds |-> << MetricThreshold("storage", quotaBytes,
               IF parsedReenable.n > quotaBytes.n
               THEN Num(MathFloorTimes(quotaBytes.n, 9))
               ELSE parsedReenable) >>]

----------------------------------------------------------------------------
(* Hysteresis evaluator of the multi-metric controller (lines 438-473) and *)
(* the message builder.  A reason string is the record of what it prints:  *)
(* the metric, the usage, the relation and the threshold.                  *)

Status == {"enabled", "disabled"}

\* mutant of isOverQuota: a usage equal to the quota is not over it
isOverQuota_strict(metric) ==
  isDefined(metric.quota) /\ isDefined(metric.usage) /\ metric.usage.n > metric.quota.n

isOverQuota(metric) ==
  isDefined(metric.quota) /\ isDefined(metric.usage) /\ metric.usage.n >= metric.quota.n

hasReenableCheck(metric) ==
  isDefined(metric.reenable) /\ isDefined(metric.usage)

overQuotaReason(metric) ==
  [metric |-> metric.name, usage |-> metric.usage.n,
   rel |-> "exceeds quota", bound |-> metric.quota.n]

reenableCheck(metric) ==
  [metric |-> metric.name, usage |-> metric.usage.n,
   rel |-> IF metric.usage.n <= metric.reenable.n THEN "<=" ELSE ">",
   bound |-> metric.reenable.n]

\* mutant of overQuotaReasons: only the first metric over its quota is reported
overQuotaReasons_firstOnly(thresholds) ==
  LET over == SelectSeq(thresholds, isOverQuota)
  IN [i \in 1..(IF Len(over) > 0 THEN 1 ELSE 0) |-> overQuotaReason(over[i])]

\* mutant of overQuotaReasons: the loop stops at the first metric under its quota
overQuotaReasons_untilUnder(thresholds) ==
  LET under == {i \in 1..Len(thresholds) : ~isOverQuota(thresholds[i])}
      stop == IF under = {} THEN Len(thresholds) + 1
              ELSE CHOOSE i \in under : \A j \in under : i <= j
  IN [i \in 1..(stop - 1) |-> overQuotaReason(thresholds[i])]

overQuotaReasons(thresholds) ==
  LET over == SelectSeq(thresholds, isOverQuota)
  IN [i \in 1..Len(over) |-> overQuotaReason(over[i])]

reenableChecks(thresholds) ==
  LET checked == SelectSeq(thresholds, hasReenableCheck)
  IN [i \in 1..Len(checked) |-> reenableCheck(checked[i])]

\* mutant of shouldReenable: usage is held against the quota, not the threshold
shouldReenable_belowQuota(thresholds) ==
  \A i \in 1..Len(thresholds) :
    IF ~isDefined(thresholds[i].quota) \/ ~isDefined(thresholds[i].usage)
    THEN TRUE
    ELSE thresholds[i].usage.n < thresholds[i].quota.n

shouldReenable(thresholds) ==
  \A i \in 1..Len(thresholds) :
    IF ~isDefined(thresholds[i].reenable) \/ ~isDefined(thresholds[i].usage)
    THEN TRUE
    ELSE thresholds[i].usage.n <= thresholds[i].reenable.n

\* mutant of desiredStatus: inside the band the state is flipped, not kept
desiredStatus_flipInBand(currentStatus, thresholds) ==
  IF Len(overQuotaReasons(thresholds)) > 0 THEN "disabled"
  ELSE IF shouldReenable(thresholds) THEN "enabled"
  ELSE IF currentStatus = "enabled" THEN "disabled" ELSE "enabled"

\* mutant of desiredStatus: no hysteresis, enabled whenever nothing is over quota
desiredStatus_noBand(currentStatus, thresholds) ==
  IF Len(overQuotaReasons(thresholds)) > 0 THEN "disabled" ELSE "enabled"

desiredStatus(currentStatus, thresholds) ==
  IF Len(overQuotaReasons(thresholds)) > 0 THEN "disabled"
  ELSE IF shouldReenable(thresholds) THEN "enabled"
  ELSE currentStatus

\* mutant of buildStatusMessage: the Keeping form names the next state first
buildStatusMessage_keepFirst(desired, current, over, checks) ==
  IF desired = current
  THEN [form |-> "Keeping access key", status |-> current, reasons |-> over \o checks,
        noThresholds |-> (Len(over \o checks) = 0)]
  ELSE IF desired = "disabled"
  THEN [form |-> "Disabling access key", status |-> "", reasons |-> over,
        noThresholds |-> FALSE]
  ELSE [form |-> "Re-enabling access key", status |-> "", reasons |-> checks,
        noThresholds |-> FALSE]

(* buildStatusMessage: form is the fixed text the message starts with,     *)
(* status the state named after "Keeping access key", reasons the joined   *)
(* list, noThresholds whether the join was empty and replaced by "no       *)
(* thresholds configured".                                                 *)
buildStatusMessage(desired, current, over, checks) ==
  IF desired = "disabled" /\ Len(over) > 0
  THEN [form |-> "Disabling access key", status |-> "", reasons |-> over,
        noThresholds |-> FALSE]
  ELSE IF desired = "enabled" /\ current = "disabled"
  THEN [form |-> "Re-enabling access key", status |-> "", reasons |-> checks,
        noThresholds |-> FALSE]
  ELSE [form |-> "Keeping access key", status |-> current, reasons |-> over \o checks,
        noThresholds |-> (Len(over \o checks) = 0)]

\* the whole decision of one invocation, as runQuotaController computes it
evaluate(currentStatus, thresholds) ==
  LET desired == desiredStatus(currentStatus, thresholds)
      over == overQuotaReasons(thresholds)
      checks == reenableChecks(thresholds)
  IN [desiredStatus |-> desired, overQuotaReasons |-> over, reenableChecks |-> checks,
      message |-> buildStatusMessage(desired, currentStatus, over, checks)]

\* mutant of legacyDesiredStatus: a usage equal to the quota does not disable
legacyDesiredStatus_strict(currentStatus, usageBytes, quotaBytes, reenableThresholdBytes) ==
  IF usageBytes > quotaBytes THEN "disabled"
  ELSE IF usageBytes <= reenableThresholdBytes THEN "enabled"
  ELSE currentStatus

(* The legacy decision (lines 101-112) on the single storage metric.       *)
legacyDesiredStatus(currentStatus, usageBytes, quotaBytes, reenableThresholdBytes) ==
  IF usageBytes >= quotaBytes THEN "disabled"
  ELSE IF usageBytes <= reenableThresholdBytes THEN "enabled"
  ELSE currentStatus

legacyMessage(currentStatus, usageBytes, quotaBytes, reenableThresholdBytes) ==
  IF usageBytes >= quotaBytes
  THEN [form |-> "above the quota; disabling access key", status |-> "",
        reasons |-> <<>>, noThresholds |-> FALSE]
  ELSE IF usageBytes <= reenableThresholdBytes
  THEN [form |-> "below the re-enable threshold; enabling access key", status |-> "",
        reasons |-> <<>>, noThresholds |-> FALSE]
  ELSE [form |-> "between thresholds; keeping status", status |-> currentStatus,
        reasons |-> <<>>, noThresholds |-> FALSE]

legacyEvaluate(currentStatus, thresholds) ==
  LET m == thresholds[1]
  IN [desiredStatus |-> legacyDesiredStatus(currentStatus, m.usage.n, m.quota.n, m.reenable.n),
      overQuotaReasons |-> <<>>, reenableChecks |-> <<>>,
      message |-> legacyMessage(currentStatus, m.usage.n, m.quota.n, m.reenable.n)]

----------------------------------------------------------------------------
(* Metric extractor.  A payload is a tree: scalars, Obj(fields) with       *)
(* fields a sequence of [key, val] in insertion order, Arr(items).         *)

Null == [t |-> "null", n |-> 0]
Str == [t |-> "string", n |-> 0]
Obj(fields) == [t |-> "object", f |-> fields]
Arr(items) == [t |-> "array", f |-> items]
Field(key, val) == [key |-> key, val |-> val]

CANDIDATE_USAGE_KEYS ==
  << "usageBytes", "usage_bytes", "used_bytes", "storedBytes", "stored_bytes",
     "storageBytes", "storage_bytes", "storageUsageBytes", "size_bytes", "sizeBytes",
     "total_usage_bytes", "totalUsageBytes" >>

CANDIDATE_CLASS_A_KEYS ==
  << "classARequests", "class_a_requests", "classAOperations", "class_a_operations",
     "classA_ops", "class_a_ops", "classA", "requestsClassA", "request_class_a" >>

CANDIDATE_CLASS_B_KEYS ==
  << "classBRequests", "class_b_requests", "classBOperations", "class_b_operations",
     "classB_ops", "class_b_ops", "classB", "requestsClassB", "request_class_b" >>

includes(keys, key) == \E i \in 1..Len(keys) : keys[i] = key

\* typeof value === "object": objects, arrays and null
typeofObject(value) == value.t \in {"object", "array", "null"}

\* Object.entries(value): an array's entries are keyed by its indices
entries(value) ==
  IF value.t = "object" THEN value.f
  ELSE IF value.t = "array"
  THEN [i \in 1..Len(value.f) |-> Field(ToString(i - 1), value.f[i])]
  ELSE <<>>

RECURSIVE findFirstNumberByKeys(_, _)
RECURSIVE findInEntries(_, _, _)
RECURSIVE findInItems(_, _, _)

\* the loop over an array's items (lines 721-727), from item i on
findInItems(items, keys, i) ==
  IF i > Len(items) THEN Null
  ELSE LET candidate == findFirstNumberByKeys(items[i], keys)
       IN IF candidate # Null THEN candidate ELSE findInItems(items, keys, i + 1)

\* the loop over Object.entries(value) (lines 711-729), from entry i on
findInEntries(ents, keys, i) ==
  IF i > Len(ents) THEN Null
  ELSE LET key == ents[i].key
           nested == ents[i].val
           direct == includes(keys, key) /\ nested.t = "num"
           deep == IF typeofObject(nested) THEN findFirstNumberByKeys(nested, keys) ELSE Null
           listed == IF nested.t = "array" THEN findInItems(nested.f, keys, 1) ELSE Null
       IN IF direct THEN nested
          ELSE IF deep # Null THEN deep
          ELSE IF listed # Null THEN listed
          ELSE findInEntries(ents, keys, i + 1)

findFirstNumberByKeys(value, keys) ==
  IF value.t \notin {"object", "array"} THEN Null
  ELSE findInEntries(entries(value), keys, 1)

\* mutant of maybeResult: the result envelope is not entered
maybeResult_wholePayload(payload) == payload

\* (payload as Record).result ?? payload
maybeResult(payload) ==
  LET hits == SelectSeq(entries(payload), LAMBDA e : e.key = "result")
  IN IF payload.t = "object" /\ Len(hits) > 0 /\ hits[1].val.t \notin {"null", "undefined"}
     THEN hits[1].val
     ELSE payload

extractMetric(payload, keys) ==
  IF payload.t \in {"num", "nan"}
  THEN (IF isFinite(payload) THEN payload ELSE Undefined)
  ELSE IF payload.t \notin {"object", "array"} THEN Undefined
  ELSE LET found == findFirstNumberByKeys(maybeResult(payload), keys)
       IN IF found.t = "num" THEN found ELSE Undefined

extractUsageBytes(payload) == extractMetric(payload, CANDIDATE_USAGE_KEYS)
extractClassARequests(payload) == extractMetric(payload, CANDIDATE_CLASS_A_KEYS)
extractClassBRequests(payload) == extractMetric(payload, CANDIDATE_CLASS_B_KEYS)

\* the legacy extractUsageBytes (lines 264-278): a bare number is returned as is
legacyExtractUsageBytes(payload) ==
  IF payload.t \in {"num", "nan"} THEN payload
  ELSE IF payload.t \notin {"object", "array"} THEN NaN
  ELSE LET found == findFirstNumberByKeys(maybeResult(payload), CANDIDATE_USAGE_KEYS)
       IN IF found.t = "num" THEN found ELSE NaN

----------------------------------------------------------------------------
(* What the environment can hand to the worker, within the bounds.         *)

optField(key, val) == IF isDefined(val) THEN << Field(key, val) >> ELSE <<>>

\* a Cloudflare response envelope { result: { ...counters } }
usagePayload(storage, classA, classB) ==
  Obj(<< Field("success", Str),
         Field("result", Obj(optField("usageBytes", storage)
                             \o optField("classARequests", classA)
                             \o optField("classBRequests", classB))) >>)

StorageUsages == {Undefined} \cup {Num(n) : n \in 0..MaxBytes}
ClassAUsages == {Undefined, Num(MaxRequests)}
ClassBUsages == {Undefined, Num(CLASS_B_DEFAULT)}

Payloads ==
  {usagePayload(s, a, b) : s \in StorageUsages, a \in ClassAUsages, b \in ClassBUsages}

\* deployments of the multi-metric worker
MultiEnvs ==
  [CREDS : BOOLEAN,
   QUOTA_BYTES : {NoValue, Digits(MaxBytes - 1), Digits(0)},
   REENABLE_THRESHOLD : {NoValue, Digits(0), Digits(1), Digits(MaxBytes)},
   CLASS_A_QUOTA : {NoValue, Digits(MaxRequests)},
   CLASS_A_REENABLE_THRESHOLD : {NoValue, Digits(1)},
   CLASS_B_QUOTA : {NoValue},
   CLASS_B_REENABLE_THRESHOLD : {NoValue}]

\* deployments of the legacy worker, which reads the storage bindings only
LegacyEnvs ==
  [CREDS : BOOLEAN,
   QUOTA_BYTES : {NoValue, Digits(MaxBytes - 1), Digits(0)},
   REENABLE_THRESHOLD : {NoValue, Digits(0), Digits(1), Digits(MaxBytes)},
   CLASS_A_QUOTA : {NoValue},
   CLASS_A_REENABLE_THRESHOLD : {NoValue},
   CLASS_B_QUOTA : {NoValue},
   CLASS_B_REENABLE_THRESHOLD : {NoValue}]

----------------------------------------------------------------------------
(* The controller: runQuotaController as a process.  Each await is a step; *)
(* the synchronous code between two awaits runs with the step before it.   *)

Procs == {1, 2}

NoUsage == [storageBytes |-> Undefined, classARequests |-> Undefined,
            classBRequests |-> Undefined]

Idle ==
  [pc |-> "idle", usageDone |-> FALSE, kvDone |-> FALSE, usage |-> NoUsage,
   storedState |-> Null, thresholds |-> <<>>, currentStatus |-> "",
   desiredStatus |-> "", message |-> Null, getCalls |-> 0, setCalls |-> 0,
   putCalls |-> 0, error |-> "", payload |-> Null]

failed(p, error) == [inv[p] EXCEPT !.pc = "failed", !.error = error]

\* lines 405-413 and 73-81: the three required bindings, as one flag
missingConfiguration(e) == ~e.CREDS

\* lines 421-433: each threshold takes the usage of its metric
withUsage(thresholds, usage) ==
  [i \in 1..Len(thresholds) |->
     [thresholds[i] EXCEPT !.usage =
        CASE thresholds[i].name = "storage" -> usage.storageBytes
          [] thresholds[i].name = "classA" -> usage.classARequests
          [] thresholds[i].name = "classB" -> usage.classBRequests]]

\* mutant of toggleNeeded: the access key is never updated
toggleNeeded_never(desired, current) == FALSE

\* mutant of toggleNeeded: the access key is updated on every invocation
toggleNeeded_always(desired, current) == TRUE

\* lines 475 and 114: whether the access key must be updated
toggleNeeded(desired, current) == desired # current

thresholdOf(thresholds, name) ==
  LET hits == SelectSeq(thresholds, LAMBDA m : m.name = name)
  IN IF Len(hits) = 0 THEN [quota |-> Undefined, reenable |-> Undefined]
     ELSE [quota |-> hits[1].quota, reenable |-> hits[1].reenable]

\* mutant of storedStateOf: the snapshot records the state the invocation read
storedStateOf_current(which, i) ==
  [accessKeyStatus |-> i.currentStatus,
   lastUsageBytes |-> i.usage.storageBytes,
   quotaBytes |-> thresholdOf(i.thresholds, "storage").quota,
   reenableThresholdBytes |-> thresholdOf(i.thresholds, "storage").reenable,
   message |-> i.message]

\* lines 488-501 and 118-125: the StoredState written to STATE_KV
storedStateOf(which, i) ==
  IF which = "legacy"
  THEN [accessKeyStatus |-> i.desiredStatus,
        lastUsageBytes |-> i.usage.storageBytes,
        quotaBytes |-> thresholdOf(i.thresholds, "storage").quota,
        reenableThresholdBytes |-> thresholdOf(i.thresholds, "storage").reenable,
        message |-> i.message]
  ELSE [accessKeyStatus |-> i.desiredStatus,
        lastUsageBytes |-> i.usage.storageBytes,
        quotaBytes |-> thresholdOf(i.thresholds, "storage").quota,
        reenableThresholdBytes |-> thresholdOf(i.thresholds, "storage").reenable,
        lastClassARequests |-> i.usage.classARequests,
        classAQuota |-> thresholdOf(i.thresholds, "classA").quota,
        classAReenableThreshold |-> thresholdOf(i.thresholds, "classA").reenable,
        lastClassBRequests |-> i.usage.classBRequests,
        classBQuota |-> thresholdOf(i.thresholds, "classB").quota,
        classBReenableThreshold |-> thresholdOf(i.thresholds, "classB").reenable,
        message |-> i.message]

\* mutant of decided: with a snapshot, the stored storage usage is evaluated
decided_storedUsage(which, i, current) ==
  LET ths == IF i.storedState = Null THEN i.thresholds
             ELSE withUsage(i.thresholds,
                            [i.usage EXCEPT !.storageBytes = i.storedState.lastUsageBytes])
      d == IF which = "legacy" THEN legacyEvaluate(current, ths)
           ELSE evaluate(current, ths)
  IN [i EXCEPT !.currentStatus = current,
               !.desiredStatus = d.desiredStatus,
               !.message = d.message,
               !.pc = IF toggleNeeded(d.desiredStatus, current) THEN "setStatus" ELSE "put"]

\* lines 438-479 and 101-116: the decision once currentStatus is known
decided(which, i, current) ==
  LET d == IF which = "legacy" THEN legacyEvaluate(current, i.thresholds)
           ELSE evaluate(current, i.thresholds)
  IN [i EXCEPT !.currentStatus = current,
               !.desiredStatus = d.desiredStatus,
               !.message = d.message,
               !.pc = IF toggleNeeded(d.desiredStatus, current) THEN "setStatus" ELSE "put"]

\* lines 404-413, and 67-91 of the legacy controller
Start(p) ==
  /\ inv[p].pc = "idle"
  /\ LET resolved == legacyThresholds(env)
     IN inv' = [inv EXCEPT ![p] =
          IF missingConfiguration(env) THEN failed(p, "MissingConfiguration")
          ELSE IF impl = "legacy" /\ resolved.threw THEN failed(p, "InvalidConfiguration")
          ELSE IF impl = "legacy"
               THEN [inv[p] EXCEPT !.pc = "fetch", !.thresholds = resolved.thresholds]
               ELSE [inv[p] EXCEPT !.pc = "fetch"]]
  /\ UNCHANGED <<impl, env, kv, live, fnArgs, fnRet>>

\* mutant of noUsableMetric: a response without any metric is a success
noUsableMetric_never(usage) == FALSE

\* lines 537-543: none of the three metrics could be extracted
noUsableMetric(usage) ==
  /\ usage.storageBytes = Undefined
  /\ usage.classARequests = Undefined
  /\ usage.classBRequests = Undefined

\* fetchR2Usage (lines 515-546 and 140-162), first half of the Promise.all
FetchR2Usage(p) ==
  /\ inv[p].pc = "fetch"
  /\ ~inv[p].usageDone
  /\ \/ \* response.ok is false
        inv' = [inv EXCEPT ![p] = failed(p, "ProviderUnavailable")]
     \/ \E payload \in Payloads :
          LET usage == [storageBytes |-> extractUsageBytes(payload),
                        classARequests |-> extractClassARequests(payload),
                        classBRequests |-> extractClassBRequests(payload)]
              legacyUsage == legacyExtractUsageBytes(payload)
              got == [inv[p] EXCEPT !.payload = payload]
          IN inv' = [inv EXCEPT ![p] =
               IF impl = "legacy"
               THEN IF ~isFinite(legacyUsage)
                    THEN [got EXCEPT !.pc = "failed", !.error = "ProviderUnavailable"]
                    ELSE [got EXCEPT !.usageDone = TRUE,
                                     !.usage = [NoUsage EXCEPT !.storageBytes = legacyUsage]]
               ELSE IF noUsableMetric(usage)
                    THEN [got EXCEPT !.pc = "failed", !.error = "ProviderUnavailable"]
                    ELSE [got EXCEPT !.usageDone = TRUE, !.usage = usage]]
  /\ UNCHANGED <<impl, env, kv, live, fnArgs, fnRet>>

\* env.STATE_KV.get(STATE_KEY, "json"), second half of the Promise.all
StateGet(p) ==
  /\ inv[p].pc = "fetch"
  /\ ~inv[p].kvDone
  /\ inv' = [inv EXCEPT ![p].kvDone = TRUE, ![p].storedState = kv]
  /\ UNCHANGED <<impl, env, kv, live, fnArgs, fnRet>>

\* mutant of Resolve: the live status is queried even when a snapshot exists
Resolve_alwaysQueries(p) ==
  /\ inv[p].pc = "fetch"
  /\ inv[p].usageDone /\ inv[p].kvDone
  /\ LET resolved == IF impl = "legacy"
                     THEN [threw |-> FALSE, thresholds |-> inv[p].thresholds]
                     ELSE normaliseThresholds(env)
         ready == [inv[p] EXCEPT !.thresholds = withUsage(resolved.thresholds, inv[p].usage)]
     IN inv' = [inv EXCEPT ![p] =
          IF resolved.threw THEN failed(p, "InvalidConfiguration")
          ELSE [ready EXCEPT !.pc = "getStatus"]]
  /\ UNCHANGED <<impl, env, kv, live, fnArgs, fnRet>>

\* mutant of Resolve: a rejected configuration is evaluated all the same
Resolve_unvalidated(p) ==
  /\ inv[p].pc = "fetch"
  /\ inv[p].usageDone /\ inv[p].kvDone
  /\ LET resolved == IF impl = "legacy"
                     THEN [threw |-> FALSE, thresholds |-> inv[p].thresholds]
                     ELSE normaliseThresholds(env)
         ready == [inv[p] EXCEPT !.thresholds = withUsage(resolved.thresholds, inv[p].usage)]
     IN inv' = [inv EXCEPT ![p] =
          IF inv[p].storedState # Null
          THEN decided(impl, ready, inv[p].storedState.accessKeyStatus)
          ELSE [ready EXCEPT !.pc = "getStatus"]]
  /\ UNCHANGED <<impl, env, kv, live, fnArgs, fnRet>>

\* lines 420-435 (98 of the legacy controller), once the Promise.all resolved
Resolve(p) ==
  /\ inv[p].pc = "fetch"
  /\ inv[p].usageDone /\ inv[p].kvDone
  /\ LET resolved == IF impl = "legacy"
                     THEN [threw |-> FALSE, thresholds |-> inv[p].thresholds]
                     ELSE normaliseThresholds(env)
         ready == [inv[p] EXCEPT !.thresholds = withUsage(resolved.thresholds, inv[p].usage)]
     IN inv' = [inv EXCEPT ![p] =
          IF resolved.threw THEN failed(p, "InvalidConfiguration")
          ELSE IF inv[p].storedState # Null
               THEN decided(impl, ready, inv[p].storedState.accessKeyStatus)
               ELSE [ready EXCEPT !.pc = "getStatus"]]
  /\ UNCHANGED <<impl, env, kv, live, fnArgs, fnRet>>

(* fetchAccessKeyStatus (lines 548-564 and 164-180), then the decision.    *)
(* The access controller answers with the status of the key, enabled or    *)
(* disabled; the "enabled" that line 563 substitutes for an answer without *)
(* a status is the answer of no access controller and is left out.         *)
FetchAccessKeyStatus(p) ==
  /\ inv[p].pc = "getStatus"
  /\ \/ \* response.ok is false
        inv' = [inv EXCEPT ![p] = [failed(p, "AccessControllerFailure")
                                     EXCEPT !.getCalls = inv[p].getCalls + 1]]
     \/ inv' = [inv EXCEPT ![p] =
          decided(impl, [inv[p] EXCEPT !.getCalls = inv[p].getCalls + 1], live)]
  /\ UNCHANGED <<impl, env, kv, live, fnArgs, fnRet>>

\* mutant of UpdateAccessKeyStatus: a failed update is swallowed
UpdateAccessKeyStatus_swallowed(p) ==
  /\ inv[p].pc = "setStatus"
  /\ \/ /\ inv' = [inv EXCEPT ![p].setCalls = inv[p].setCalls + 1, ![p].pc = "put",
                                ![p].error = "AccessControllerFailure"]
        /\ live' = live
     \/ /\ inv' = [inv EXCEPT ![p].setCalls = inv[p].setCalls + 1, ![p].pc = "put"]
        /\ live' = inv[p].desiredStatus
  /\ UNCHANGED <<impl, env, kv, fnArgs, fnRet>>

\* updateAccessKeyStatus (lines 566-581 and 182-197)
UpdateAccessKeyStatus(p) ==
  /\ inv[p].pc = "setStatus"
  /\ \/ \* response.ok is false: the key keeps its status
        /\ inv' = [inv EXCEPT ![p] = [failed(p, "AccessControllerFailure")
                                        EXCEPT !.setCalls = inv[p].setCalls + 1]]
        /\ live' = live
     \/ /\ inv' = [inv EXCEPT ![p].setCalls = inv[p].setCalls + 1, ![p].pc = "put"]
        /\ live' = inv[p].desiredStatus
  /\ UNCHANGED <<impl, env, kv, fnArgs, fnRet>>

\* mutant of StatePut: a rejected put is not awaited, the invocation succeeds
StatePut_notAwaited(p) ==
  /\ inv[p].pc = "put"
  /\ \/ /\ inv' = [inv EXCEPT ![p].putCalls = inv[p].putCalls + 1, ![p].pc = "done"]
        /\ kv' = kv
     \/ /\ inv' = [inv EXCEPT ![p].putCalls = inv[p].putCalls + 1, ![p].pc = "done"]
        /\ kv' = storedStateOf(impl, inv[p])
  /\ UNCHANGED <<impl, env, live, fnArgs, fnRet>>

\* env.STATE_KV.put(STATE_KEY, JSON.stringify(state)) (lines 503 and 127)
StatePut(p) ==
  /\ inv[p].pc = "put"
  /\ \/ \* the put rejects
        /\ inv' = [inv EXCEPT ![p] = [failed(p, "StateStoreFailure")
                                        EXCEPT !.putCalls = inv[p].putCalls + 1]]
        /\ kv' = kv
     \/ /\ inv' = [inv EXCEPT ![p].putCalls = inv[p].putCalls + 1, ![p].pc = "done"]
        /\ kv' = storedStateOf(impl, inv[p])
  /\ UNCHANGED <<impl, env, live, fnArgs, fnRet>>

\* the invocation has returned or thrown; the next trigger starts afresh
Return(p) ==
  /\ inv[p].pc \in {"done", "failed"}
  /\ inv' = [inv EXCEPT ![p] = Idle]
  /\ UNCHANGED <<impl, env, kv, live, fnArgs, fnRet>>

----------------------------------------------------------------------------
(* Invocations run one at a time: the scheduled trigger, no failures       *)
(* excluded.                                                               *)

Init ==
  /\ impl \in {"legacy", "multi"}
  /\ env \in (IF impl = "legacy" THEN LegacyEnvs ELSE MultiEnvs)
  /\ kv = Null
  /\ live \in Status
  /\ inv = [p \in Procs |-> Idle]
  /\ fnArgs = Null
  /\ fnRet = Null

Next ==
  \/ Start(1)
  \/ FetchR2Usage(1)
  \/ StateGet(1)
  \/ Resolve(1)
  \/ FetchAccessKeyStatus(1)
  \/ UpdateAccessKeyStatus(1)
  \/ StatePut(1)
  \/ Return(1)

Spec == Init /\ [][Next]_vars

----------------------------------------------------------------------------
(* Two triggers at once (an HTTP request during a scheduled run, or two    *)
(* requests): two invocations of runQuotaController whose awaits           *)
(* interleave freely, over a store that holds the snapshot of an earlier   *)
(* successful invocation.  Every call succeeds.                            *)

ConcEnvs ==
  {e \in MultiEnvs :
     /\ e.CREDS
     /\ e.QUOTA_BYTES = Digits(MaxBytes - 1)
     /\ e.REENABLE_THRESHOLD \in {NoValue, Digits(1)}
     /\ e.CLASS_A_QUOTA = NoValue /\ e.CLASS_A_REENABLE_THRESHOLD = NoValue}

\* the invocation that ran before, at the point of its return
earlierInvocation(which, e, storage, current) ==
  LET usage == [NoUsage EXCEPT !.storageBytes = storage]
      resolved == IF which = "legacy" THEN legacyThresholds(e) ELSE normaliseThresholds(e)
  IN decided(which, [Idle EXCEPT !.usage = usage,
                                 !.thresholds = withUsage(resolved.thresholds, usage)],
             current)

InitConc ==
  /\ impl \in {"legacy", "multi"}
  /\ env \in ConcEnvs
  /\ \E storage \in {Num(0), Num(MaxBytes)}, current \in Status :
       LET earlier == earlierInvocation(impl, env, storage, current)
       IN /\ kv = storedStateOf(impl, earlier)
          /\ live = earlier.desiredStatus
  /\ inv = [p \in Procs |-> Idle]
  /\ fnArgs = Null
  /\ fnRet = Null

\* the calls of the collaborators all succeed
succeeds(p) == inv'[p].pc # "failed"

NextConc ==
  \E p \in Procs :
    \/ Start(p) /\ succeeds(p)
    \/ FetchR2Usage(p) /\ succeeds(p)
    \/ StateGet(p)
    \/ Resolve(p) /\ succeeds(p)
    \/ UpdateAccessKeyStatus(p) /\ succeeds(p)
    \/ StatePut(p) /\ succeeds(p)

SpecConc == InitConc /\ [][NextConc]_vars

----------------------------------------------------------------------------
(* The scheduled trigger over time, for an accepted configuration: cron    *)
(* keeps starting invocations one after the other, each await eventually   *)
(* resolves, the state store and the status query answer, the usage fetch  *)
(* and the status update may fail, and an update that is retried again and *)
(* again eventually goes through.                                          *)

RetryEnvs == ConcEnvs

InitRetry ==
  /\ impl \in {"legacy", "multi"}
  /\ env \in RetryEnvs
  /\ kv = Null
  /\ live \in Status
  /\ inv = [p \in Procs |-> Idle]
  /\ fnArgs = Null
  /\ fnRet = Null

UpdateAccessKeyStatusOk(p) == UpdateAccessKeyStatus(p) /\ succeeds(p)

NextRetry ==
  \/ Start(1)
  \/ FetchR2Usage(1)
  \/ StateGet(1)
  \/ Resolve(1)
  \/ FetchAccessKeyStatus(1) /\ succeeds(1)
  \/ UpdateAccessKeyStatus(1)
  \/ StatePut(1) /\ succeeds(1)
  \/ Return(1)

\* both halves of the Promise.all have settled: Resolve(1) is enabled
ResolveReady == inv[1].pc = "fetch" /\ inv[1].usageDone /\ inv[1].kvDone

\* weak fairness of Resolve(1), with its enabling condition written out
ResolveFair == []<>(~ResolveReady) \/ []<><<Resolve(1)>>_vars

SpecRetry ==
  /\ InitRetry /\ [][NextRetry]_vars
  /\ WF_vars(Start(1))
  /\ WF_vars(FetchR2Usage(1))
  /\ WF_vars(StateGet(1))
  /\ ResolveFair
  /\ WF_vars(FetchAccessKeyStatus(1) /\ succeeds(1))
  /\ WF_vars(UpdateAccessKeyStatus(1))
  /\ SF_vars(UpdateAccessKeyStatusOk(1))
  /\ WF_vars(StatePut(1) /\ succeeds(1))
  /\ WF_vars(Return(1))

----------------------------------------------------------------------------
(* The worker redeployed: the store holds the snapshot an earlier          *)
(* deployment wrote, with its own quotas and the usage of that time, and   *)
(* invocations run one at a time as in Spec.                               *)

InitSnap ==
  /\ impl \in {"legacy", "multi"}
  /\ env \in RetryEnvs
  /\ \E earlierEnv \in ConcEnvs \cup {[e EXCEPT !.QUOTA_BYTES = Digits(MaxBytes)] : e \in ConcEnvs},
        storage \in {Num(0), Num(2), Num(MaxBytes)}, current \in Status :
       kv = storedStateOf(impl, earlierInvocation(impl, earlierEnv, storage, current))
  /\ live \in Status
  /\ inv = [p \in Procs |-> Idle]
  /\ fnArgs = Null
  /\ fnRet = Null

NextSnap ==
  \/ Start(1)
  \/ FetchR2Usage(1)
  \/ StateGet(1)
  \/ Resolve(1)
  \/ UpdateAccessKeyStatus(1)
  \/ StatePut(1)
  \/ Return(1)

SpecSnap == InitSnap /\ [][NextSnap]_vars

----------------------------------------------------------------------------
(* The two versions of runQuotaController side by side, from the point     *)
(* where currentStatus is known: the same current status, storage usage,   *)
(* storage quota and re-enable threshold are handed to the decision of the *)
(* legacy controller and to that of the multi-metric controller, whose     *)
(* class A and class B metrics have their default quotas and no usage.     *)

PairUsages == {Num(n) : n \in 0..(MaxLevel + 1)}
PairQuotas == {Num(n) : n \in 1..MaxLevel}
PairReenables == {Num(n) : n \in 0..MaxLevel}

\* the legacy invocation at line 98, the multi-metric one at line 435
atDecision(which, usage, quota, reenable) ==
  LET u == [NoUsage EXCEPT !.storageBytes = usage]
      ths == IF which = "legacy"
             THEN << MetricThreshold("storage", quota, reenable) >>
             ELSE << MetricThreshold("storage", quota, reenable),
                     MetricThreshold("classA", Num(CLASS_A_DEFAULT),
                                     determineReenable(Num(CLASS_A_DEFAULT), Undefined)),
                     MetricThreshold("classB", Num(CLASS_B_DEFAULT),
                                     determineReenable(Num(CLASS_B_DEFAULT), Undefined)) >>
  IN [Idle EXCEPT !.pc = "getStatus", !.usageDone = TRUE, !.kvDone = TRUE,
                  !.usage = u, !.thresholds = withUsage(ths, u)]

InitPair ==
  /\ impl = "multi"
  /\ env \in {e \in MultiEnvs : e.CREDS /\ \A f \in DOMAIN e : f = "CREDS" \/ e[f] = NoValue}
  /\ kv = Null
  /\ live = "enabled"
  /\ inv = [p \in Procs |-> Idle]
  /\ fnArgs \in {a \in [currentStatus : Status, usage : PairUsages,
                         quota : PairQuotas, reenable : PairReenables] :
                   a.reenable.n <= a.quota.n}
  /\ fnRet = [done |-> FALSE]

DecideBoth ==
  /\ ~fnRet.done
  /\ fnRet' = [done |-> TRUE,
               legacy |-> decided("legacy",
                            atDecision("legacy", fnArgs.usage, fnArgs.quota, fnArgs.reenable),
                            fnArgs.currentStatus),
               multi |-> decided("multi",
                           atDecision("multi", fnArgs.usage, fnArgs.quota, fnArgs.reenable),
                           fnArgs.currentStatus)]
  /\ UNCHANGED <<impl, env, kv, live, inv, fnArgs>>

NextPair == DecideBoth

SpecPair == InitPair /\ [][NextPair]_vars

----------------------------------------------------------------------------
(* Invocations one at a time over a state store whose put always succeeds; *)
(* the usage fetch, the status query and the status update may fail, and   *)
(* any deployment of Spec may be the one running.                          *)

NextPutOk ==
  \/ Start(1)
  \/ FetchR2Usage(1)
  \/ StateGet(1)
  \/ Resolve(1)
  \/ FetchAccessKeyStatus(1)
  \/ UpdateAccessKeyStatus(1)
  \/ StatePut(1) /\ succeeds(1)
  \/ Return(1)

SpecPutOk == Init /\ [][NextPutOk]_vars

----------------------------------------------------------------------------
(* The metric extractor as a pure function of a payload tree and a list of *)
(* candidate keys.  The tree is what response.json() can yield: it grows   *)
(* from a scalar by wrapping it in an object field or an array and by      *)
(* adding scalar fields or items before or after, up to MaxNodes values.   *)

MaxNodes == 4

\* JSON scalars; 1e999 parses to Infinity, a number that is not finite
ExtScalars == {Num(1), Num(2), NaN, Str, Null}

\* field names: two candidates of the storage list, the envelope, another
ExtNames == {"usageBytes", "storedBytes", "result", "meta"}

ExtKeyLists ==
  {CANDIDATE_USAGE_KEYS, CANDIDATE_CLASS_A_KEYS, << "storedBytes", "usageBytes" >>}

RECURSIVE nodes(_)
RECURSIVE nodesFrom(_, _)

nodesFrom(items, i) ==
  IF i > Len(items) THEN 0 ELSE nodes(items[i]) + nodesFrom(items, i + 1)

\* the number of values in the tree
nodes(value) ==
  IF value.t = "object" THEN 1 + nodesFrom([i \in 1..Len(value.f) |-> value.f[i].val], 1)
  ELSE IF value.t = "array" THEN 1 + nodesFrom(value.f, 1)
  ELSE 1

InitExt ==
  /\ impl = "multi"
  /\ env \in {e \in MultiEnvs : e.CREDS /\ \A f \in DOMAIN e : f = "CREDS" \/ e[f] = NoValue}
  /\ kv = Null
  /\ live = "enabled"
  /\ inv = [p \in Procs |-> Idle]
  /\ fnArgs \in [payload : ExtScalars, keys : ExtKeyLists]
  /\ fnRet = [done |-> FALSE]

\* { name: payload }
WrapInField ==
  /\ ~fnRet.done /\ nodes(fnArgs.payload) < MaxNodes
  /\ \E name \in ExtNames :
       fnArgs' = [fnArgs EXCEPT !.payload = Obj(<< Field(name, @) >>)]
  /\ UNCHANGED <<impl, env, kv, live, inv, fnRet>>

\* [ payload ]
WrapInArray ==
  /\ ~fnRet.done /\ nodes(fnArgs.payload) < MaxNodes
  /\ fnArgs' = [fnArgs EXCEPT !.payload = Arr(<< @ >>)]
  /\ UNCHANGED <<impl, env, kv, live, inv, fnRet>>

\* one more scalar field in the object, before or after the others
AddField ==
  /\ ~fnRet.done /\ nodes(fnArgs.payload) < MaxNodes
  /\ fnArgs.payload.t = "object"
  /\ \E name \in ExtNames, scalar \in ExtScalars, front \in BOOLEAN :
       /\ \A i \in 1..Len(fnArgs.payload.f) : fnArgs.payload.f[i].key # name
       /\ fnArgs' = [fnArgs EXCEPT !.payload =
            Obj(IF front THEN << Field(name, scalar) >> \o @.f
                ELSE Append(@.f, Field(name, scalar)))]
  /\ UNCHANGED <<impl, env, kv, live, inv, fnRet>>

\* one more scalar item in the array, before or after the others
AddItem ==
  /\ ~fnRet.done /\ nodes(fnArgs.payload) < MaxNodes
  /\ fnArgs.payload.t = "array"
  /\ \E scalar \in {Num(2), Str}, front \in BOOLEAN :
       fnArgs' = [fnArgs EXCEPT !.payload =
         Arr(IF front THEN << scalar >> \o @.f ELSE Append(@.f, scalar))]
  /\ UNCHANGED <<impl, env, kv, live, inv, fnRet>>

ExtractMetricCall ==
  /\ ~fnRet.done
  /\ fnRet' = [done |-> TRUE, value |-> extractMetric(fnArgs.payload, fnArgs.keys)]
  /\ UNCHANGED <<impl, env, kv, live, inv, fnArgs>>

NextExt == WrapInField \/ WrapInArray \/ AddField \/ AddItem \/ ExtractMetricCall

SpecExt == InitExt /\ [][NextExt]_vars

----------------------------------------------------------------------------
(* The threshold resolver as a pure function of the environment: Init      *)
(* draws the bindings, one action applies the resolver of the deployed     *)
(* version.                                                                *)

ResolverEnvs ==
  [CREDS : {TRUE},
   QUOTA_BYTES : {NoValue, Junk, Sized(1, "kb")} \cup {Digits(n) : n \in 0..MaxBytes},
   REENABLE_THRESHOLD :
     {NoValue, Junk, Minus(1), Sized(1, "kb")} \cup {Digits(n) : n \in 0..(MaxBytes + 1)},
   CLASS_A_QUOTA : {NoValue, Minus(1), Digits(0), Digits(MaxRequests)},
   CLASS_A_REENABLE_THRESHOLD :
     {NoValue, Minus(1)} \cup {Digits(n) : n \in 0..(MaxRequests + 1)},
   CLASS_B_QUOTA : {NoValue, Digits(MaxRequests)},
   CLASS_B_REENABLE_THRESHOLD : {NoValue, Digits(0), Digits(CLASS_B_DEFAULT + 1)}]

InitRes ==
  /\ impl \in {"legacy", "multi"}
  /\ env \in ResolverEnvs
  /\ impl = "legacy" =>
       /\ env.CLASS_A_QUOTA = NoValue /\ env.CLASS_A_REENABLE_THRESHOLD = NoValue
       /\ env.CLASS_B_QUOTA = NoValue /\ env.CLASS_B_REENABLE_THRESHOLD = NoValue
  /\ kv = Null
  /\ live = "enabled"
  /\ inv = [p \in Procs |-> Idle]
  /\ fnArgs = Null
  /\ fnRet = [done |-> FALSE]

NormaliseThresholdsCall ==
  /\ impl = "multi"
  /\ ~fnRet.done
  /\ fnRet' = [done |-> TRUE] @@ normaliseThresholds(env)
  /\ UNCHANGED <<impl, env, kv, live, inv, fnArgs>>

LegacyThresholdsCall ==
  /\ impl = "legacy"
  /\ ~fnRet.done
  /\ fnRet' = [done |-> TRUE] @@ legacyThresholds(env)
  /\ UNCHANGED <<impl, env, kv, live, inv, fnArgs>>

NextRes == NormaliseThresholdsCall \/ LegacyThresholdsCall

SpecRes == InitRes /\ [][NextRes]_vars

----------------------------------------------------------------------------
(* The hysteresis evaluator as a pure function of the current status and a *)
(* list of metrics.  The (quota, reenable) pairs are those the resolver    *)
(* produces; the list need not be the three metrics of normaliseThresholds.*)

MetricNames == << "storage", "classA", "classB" >>

EvalUsages == {Undefined} \cup {Num(n) : n \in 0..MaxLevel}
EvalQuotas == {Undefined, Num(MaxLevel)}
EvalOverrides == {Undefined, Num(1), Num(MaxLevel + 1)}

InitEval ==
  /\ impl = "multi"
  /\ env \in {e \in MultiEnvs : e.CREDS /\ \A f \in DOMAIN e : f = "CREDS" \/ e[f] = NoValue}
  /\ kv = Null
  /\ live = "enabled"
  /\ inv = [p \in Procs |-> Idle]
  /\ fnArgs \in [currentStatus : Status, thresholds : {<<>>}]
  /\ fnRet = [done |-> FALSE]

\* one more metric in the list: its usage, and its thresholds as resolved
AddMetric ==
  /\ ~fnRet.done
  /\ Len(fnArgs.thresholds) < MaxMetrics
  /\ \E u \in EvalUsages, q \in EvalQuotas, o \in EvalOverrides :
       fnArgs' = [fnArgs EXCEPT !.thresholds =
         Append(@, [name |-> MetricNames[Len(@) + 1], usage |-> u,
                    quota |-> q, reenable |-> determineReenable(q, o)])]
  /\ UNCHANGED <<impl, env, kv, live, inv, fnRet>>

EvaluateCall ==
  /\ ~fnRet.done
  /\ fnRet' = [done |-> TRUE] @@ evaluate(fnArgs.currentStatus, fnArgs.thresholds)
  /\ UNCHANGED <<impl, env, kv, live, inv, fnArgs>>

NextEval == AddMetric \/ EvaluateCall

SpecEval == InitEval /\ [][NextEval]_vars

----------------------------------------------------------------------------
(* The claims.  The two predicates below restate the specification's words *)
(* (section 4.3), independently of the operators that model the code.      *)

\* "quota and usage are both present and usage >= quota"
SaidOverQuota(m) == m.quota.t = "num" /\ m.usage.t = "num" /\ m.usage.n >= m.quota.n
\* "reenable and usage are both present and usage > reenable"
SaidBlocksReenable(m) == m.reenable.t = "num" /\ m.usage.t = "num" /\ m.usage.n > m.reenable.n

AnyOverQuota(ths) == \E i \in 1..Len(ths) : SaidOverQuota(ths[i])
AnyBlocksReenable(ths) == \E i \in 1..Len(ths) : SaidBlocksReenable(ths[i])

\* the next state section 4.3 prescribes
SaidNextState(current, ths) ==
  IF AnyOverQuota(ths) THEN "disabled"
  ELSE IF AnyBlocksReenable(ths) THEN current
  ELSE "enabled"

\* the list without its i-th metric
Without(ths, i) == SubSeq(ths, 1, i - 1) \o SubSeq(ths, i + 1, Len(ths))

(* C1: whenever some metric of the list has quota and usage present and    *)
(* usage >= quota, the evaluator's next state is disabled, for both        *)
(* current states; a metric whose usage or quota is absent has no entry    *)
(* among the over-quota reasons.                                           *)
C1_OverQuotaDisables ==
  fnRet.done =>
    LET ths == fnArgs.thresholds
    IN /\ AnyOverQuota(ths) => fnRet.desiredStatus = "disabled"
       /\ \A i \in 1..Len(ths) :
            (ths[i].usage.t # "num" \/ ths[i].quota.t # "num") =>
              \A j \in 1..Len(fnRet.overQuotaReasons) :
                fnRet.overQuotaReasons[j].metric # ths[i].name

\* an enabled key, one metric without usage, one exactly at its quota
C1_Witness ==
  /\ fnRet.done
  /\ fnArgs.currentStatus = "enabled"
  /\ Len(fnArgs.thresholds) = 2
  /\ fnArgs.thresholds[1].usage = Undefined /\ fnArgs.thresholds[1].quota = Num(MaxLevel)
  /\ fnArgs.thresholds[2].usage = fnArgs.thresholds[2].quota
  /\ fnArgs.thresholds[2].quota = Num(MaxLevel)
  /\ fnRet.desiredStatus = "disabled"

(* C2 as stated: with no metric over quota, the next state is enabled if   *)
(* and only if no metric blocks re-enable, and equals the current state    *)
(* when some metric blocks.                                                *)
C2_EnabledIffNoBlock ==
  (fnRet.done /\ ~AnyOverQuota(fnArgs.thresholds)) =>
    /\ fnRet.desiredStatus = "enabled" <=> ~AnyBlocksReenable(fnArgs.thresholds)
    /\ AnyBlocksReenable(fnArgs.thresholds) => fnRet.desiredStatus = fnArgs.currentStatus

(* C2 amended: with no metric over quota, the next state is enabled if no  *)
(* metric blocks re-enable, and equals the current state if some metric    *)
(* blocks (so an enabled key stays enabled inside the band).               *)
C2_EnabledIfNoBlockElseKept ==
  (fnRet.done /\ ~AnyOverQuota(fnArgs.thresholds)) =>
    /\ ~AnyBlocksReenable(fnArgs.thresholds) => fnRet.desiredStatus = "enabled"
    /\ AnyBlocksReenable(fnArgs.thresholds) => fnRet.desiredStatus = fnArgs.currentStatus

\* a disabled key held disabled by a metric inside its band
C2_Witness ==
  /\ fnRet.done
  /\ fnArgs.currentStatus = "disabled"
  /\ Len(fnArgs.thresholds) = 1
  /\ fnArgs.thresholds[1].quota = Num(MaxLevel)
  /\ fnArgs.thresholds[1].reenable = Num(1)
  /\ fnArgs.thresholds[1].usage = Num(2)
  /\ fnRet.desiredStatus = "disabled"

C6_NoQuotaNoReenable ==
  (fnRet.done /\ ~fnRet.threw) =>
    \A i \in 1..Len(fnRet.thresholds) :
      fnRet.thresholds[i].quota.t # "num" => fnRet.thresholds[i].reenable.t # "num"

(* C7: in every accepted configuration, of the legacy and of the           *)
(* multi-metric resolver, each metric's resolved re-enable threshold is at *)
(* most its resolved quota whenever both are present.                      *)
C7_ReenableAtMostQuota ==
  (fnRet.done /\ ~fnRet.threw) =>
    \A i \in 1..Len(fnRet.thresholds) :
      (fnRet.thresholds[i].quota.t = "num" /\ fnRet.thresholds[i].reenable.t = "num") =>
        fnRet.thresholds[i].reenable.n <= fnRet.thresholds[i].quota.n

\* the multi-metric resolver has clamped an override above the storage quota
C7_Witness ==
  /\ fnRet.done /\ ~fnRet.threw
  /\ impl = "multi"
  /\ env.QUOTA_BYTES = Digits(MaxBytes)
  /\ env.REENABLE_THRESHOLD = Digits(MaxBytes + 1)
  /\ fnRet.thresholds[1].quota = Num(MaxBytes)
  /\ fnRet.thresholds[1].reenable = Num((MaxBytes * 9) \div 10)

\* the other bindings of a deployment that configures storage only
StorageOnly(e) ==
  /\ e.CLASS_A_QUOTA = NoValue /\ e.CLASS_A_REENABLE_THRESHOLD = NoValue
  /\ e.CLASS_B_QUOTA = NoValue /\ e.CLASS_B_REENABLE_THRESHOLD = NoValue

(* C8: with a storage quota q, the resolver returns floor(q * 0.8) when no *)
(* override is supplied, floor(q * 0.9) when the override is above q, and  *)
(* the override itself when 0 <= override <= q, never an error.            *)
C8_ResolvedReenable ==
  (/\ fnRet.done
   /\ StorageOnly(env)
   /\ env.QUOTA_BYTES.k = "digits" /\ env.QUOTA_BYTES.u = "" /\ env.QUOTA_BYTES.n > 0
   /\ \/ env.REENABLE_THRESHOLD = NoValue
      \/ env.REENABLE_THRESHOLD.k = "digits" /\ env.REENABLE_THRESHOLD.u = "") =>
    LET q == env.QUOTA_BYTES.n
        o == env.REENABLE_THRESHOLD.n
    IN /\ ~fnRet.threw
       /\ fnRet.thresholds[1].reenable =
            IF env.REENABLE_THRESHOLD = NoValue THEN Num((q * 8) \div 10)
            ELSE IF o > q THEN Num((q * 9) \div 10)
            ELSE Num(o)

\* an override binding that is supplied and is not a finite number >= 0
BadSizeOverride(value) == value.k \in {"junk", "minus"}
BadCountOverride(value) == value.k \in {"junk", "minus"} \/ (value.k = "digits" /\ value.u # "")

(* C9: with valid quotas, the multi-metric resolver rejects the            *)
(* configuration exactly when some supplied re-enable override is          *)
(* non-finite or negative; every finite override >= 0, 0 included, is      *)
(* accepted for storage, class A and class B.                              *)
C9_OverrideRejectedIffInvalid ==
  (/\ fnRet.done
   /\ impl = "multi"
   /\ env.QUOTA_BYTES = NoValue \/ (env.QUOTA_BYTES.k = "digits" /\ env.QUOTA_BYTES.n > 0)
   /\ env.CLASS_A_QUOTA = NoValue
        \/ (env.CLASS_A_QUOTA.k = "digits" /\ env.CLASS_A_QUOTA.u = "" /\ env.CLASS_A_QUOTA.n > 0)
   /\ env.CLASS_B_QUOTA = NoValue
        \/ (env.CLASS_B_QUOTA.k = "digits" /\ env.CLASS_B_QUOTA.u = "" /\ env.CLASS_B_QUOTA.n > 0)) =>
    (fnRet.threw <=>
       \/ BadSizeOverride(env.REENABLE_THRESHOLD)
       \/ BadCountOverride(env.CLASS_A_REENABLE_THRESHOLD)
       \/ BadCountOverride(env.CLASS_B_REENABLE_THRESHOLD))

\* the invocation has reached its decision (lines 460-473, 104-112)
HasDecided(i) == i.desiredStatus # ""

\* the state the invocation started from: the snapshot's, else the live one
PriorState(i) ==
  IF i.storedState # Null THEN i.storedState.accessKeyStatus ELSE i.currentStatus

(* C5: in the multi-metric controller a metric without a quota is inert:   *)
(* it has no entry among the over-quota reasons and it does not hold the   *)
(* key disabled, that is, the decided next state is the one section 4.3    *)
(* prescribes for the list without that metric.                            *)
C5_AbsentQuotaInert ==
  \A p \in Procs :
    (impl = "multi" /\ HasDecided(inv[p])) =>
      \A i \in 1..Len(inv[p].thresholds) :
        inv[p].thresholds[i].quota.t # "num" =>
          /\ ~SaidOverQuota(inv[p].thresholds[i])
          /\ inv[p].desiredStatus =
               SaidNextState(inv[p].currentStatus, Without(inv[p].thresholds, i))

\* storage is the one measurable metric, with reenable < quota
SingleMetric(i) ==
  /\ i.usage.storageBytes.t = "num"
  /\ i.usage.classARequests.t # "num" /\ i.usage.classBRequests.t # "num"
  /\ Len(i.thresholds) >= 1
  /\ i.thresholds[1].name = "storage"
  /\ i.thresholds[1].quota.t = "num" /\ i.thresholds[1].reenable.t = "num"
  /\ i.thresholds[1].reenable.n < i.thresholds[1].quota.n

(* C3: at the end of a successful invocation over a single measurable      *)
(* metric with reenable < quota, the persisted state differs from the      *)
(* prior state (the snapshot read, or the live status when there was none) *)
(* only towards disabled with usage >= quota or towards enabled with       *)
(* usage <= reenable; with reenable < usage < quota it is the prior state  *)
(* and setStatus was not called.                                           *)
C3_NoFlapping ==
  \A p \in Procs :
    (inv[p].pc = "done" /\ SingleMetric(inv[p])) =>
      LET i == inv[p]
          usage == i.usage.storageBytes.n
          quota == i.thresholds[1].quota.n
          reenable == i.thresholds[1].reenable.n
      IN /\ kv # Null
         /\ (kv.accessKeyStatus # PriorState(i) /\ kv.accessKeyStatus = "disabled") =>
              usage >= quota
         /\ (kv.accessKeyStatus # PriorState(i) /\ kv.accessKeyStatus = "enabled") =>
              usage <= reenable
         /\ (reenable < usage /\ usage < quota) =>
              (kv.accessKeyStatus = PriorState(i) /\ i.setCalls = 0)

\* a persisted disabled state held through an invocation inside the band
C3_Witness ==
  /\ inv[1].pc = "done" /\ SingleMetric(inv[1])
  /\ inv[1].storedState # Null
  /\ inv[1].storedState.accessKeyStatus = "disabled"
  /\ inv[1].thresholds[1].reenable.n < inv[1].usage.storageBytes.n
  /\ inv[1].usage.storageBytes.n < inv[1].thresholds[1].quota.n
  /\ kv.accessKeyStatus = "disabled"
  /\ inv[1].setCalls = 0

(* C10: within an invocation setStatus is called at most once, and only    *)
(* when the decided state differs from the current state (the snapshot's   *)
(* toggle state, or the live status when there is no snapshot); once the   *)
(* invocation is past the toggle, it was called exactly when they differ.  *)
C10_NoRedundantToggle ==
  \A p \in Procs :
    LET i == inv[p]
    IN /\ i.setCalls \in {0, 1}
       /\ i.setCalls = 1 => (HasDecided(i) /\ i.desiredStatus # i.currentStatus)
       /\ (HasDecided(i) /\ i.storedState # Null) =>
            i.currentStatus = i.storedState.accessKeyStatus
       /\ (HasDecided(i) /\ i.storedState = Null /\ i.setCalls = 0) =>
            i.currentStatus = live
       /\ (i.pc \in {"put", "done"} \/ i.error = "StateStoreFailure") =>
            (i.setCalls = 1 <=> i.desiredStatus # i.currentStatus)

\* an already disabled key decided disabled again: the put is reached with no call
C10_Witness ==
  /\ inv[1].pc = "done"
  /\ inv[1].storedState # Null
  /\ inv[1].currentStatus = "disabled"
  /\ inv[1].desiredStatus = "disabled"
  /\ inv[1].setCalls = 0
  /\ inv[1].putCalls = 1

\* setStatus has failed in the invocation
ToggleFailed(i) == i.setCalls > 0 /\ i.error = "AccessControllerFailure"

(* C11: if setStatus fails during an invocation, the invocation ends in    *)
(* failure, the state-store put is not called in it, and the persisted     *)
(* snapshot is the one the invocation read, a missing one included.        *)
C11_ToggleFailureKeepsSnapshot ==
  \A p \in Procs :
    ToggleFailed(inv[p]) =>
      /\ inv[p].pc = "failed"
      /\ inv[p].putCalls = 0
      /\ inv[p].kvDone /\ kv = inv[p].storedState

\* a failed toggle with a snapshot in the store
C11_Witness ==
  /\ ToggleFailed(inv[1])
  /\ inv[1].storedState # Null
  /\ inv[1].desiredStatus # inv[1].storedState.accessKeyStatus
  /\ kv = inv[1].storedState

\* the steps of process p that call setStatus, and those that call put
CallsSetStatus(p) == inv'[p].setCalls > inv[p].setCalls
CallsPut(p) == inv'[p].putCalls > inv[p].putCalls

\* what a successful invocation has done by the time it returns
SuccessAfterCalls(i) ==
  /\ i.putCalls = 1
  /\ kv = storedStateOf(impl, i)
  /\ i.desiredStatus # i.currentStatus => (i.setCalls = 1 /\ live = i.desiredStatus)
  /\ i.error = ""

(* C12: an invocation reports success only with exactly one put, which     *)
(* succeeded (the store holds its snapshot), and, when the next state      *)
(* differs from the current state, after a successful setStatus (the key   *)
(* has the next state); every setStatus call is the first one and is made  *)
(* before any put, and no put is repeated.                                 *)
C12_ToggleThenPutThenSuccess ==
  /\ [](inv[1].pc = "done" => SuccessAfterCalls(inv[1]))
  /\ [][/\ CallsSetStatus(1) => (inv[1].setCalls = 0 /\ inv[1].putCalls = 0)
        /\ CallsPut(1) => inv[1].putCalls = 0]_vars

\* success after one setStatus(disabled) followed by one put
C12_Witness ==
  /\ inv[1].pc = "done"
  /\ inv[1].currentStatus = "enabled" /\ inv[1].desiredStatus = "disabled"
  /\ inv[1].setCalls = 1 /\ inv[1].putCalls = 1
  /\ live = "disabled" /\ kv.accessKeyStatus = "disabled"

(* C13: with invocations run one at a time from an empty store, whenever   *)
(* an invocation returns success having observed a metric with usage >=    *)
(* quota, the live status of the access key is disabled.                   *)
C13_OverQuotaKeyDisabled ==
  (inv[1].pc = "done" /\ AnyOverQuota(inv[1].thresholds)) => live = "disabled"

(* C14: two invocations interleave with no call failing, from a state      *)
(* where the persisted toggle state equals the live status of the key;     *)
(* once both have completed, the persisted toggle state equals the live    *)
(* status.                                                                 *)
C14_ConcurrentConverge ==
  (inv[1].pc = "done" /\ inv[2].pc = "done") => kv.accessKeyStatus = live

\* the thresholds of the deployment, with the usage an invocation fetched
Observed(i) ==
  withUsage((IF impl = "legacy" THEN legacyThresholds(env)
             ELSE normaliseThresholds(env)).thresholds, i.usage)

\* a usage fetch of the invocation returns a metric with usage >= quota
ObservesOverQuota ==
  FetchR2Usage(1) => (inv'[1].usageDone /\ AnyOverQuota(Observed(inv'[1])))

\* the key is disabled and the snapshot says so
DisabledAndRecorded ==
  live = "disabled" /\ kv # Null /\ kv.accessKeyStatus = "disabled"

(* C15: invocations run one at a time, the state store never fails,        *)
(* setStatus may fail but not forever; if from some point on every         *)
(* invocation observes a metric with usage >= quota, then eventually the   *)
(* key is disabled and the snapshot records disabled, and it stays so.     *)
C15_RetryByRecomputation ==
  <>[][ObservesOverQuota]_vars => <>[]DisabledAndRecorded

\* the update failed once, the next invocation disabled the key and recorded it
C15_Witness ==
  /\ inv[1].pc = "done"
  /\ inv[1].storedState = Null
  /\ inv[1].currentStatus = "enabled"
  /\ AnyOverQuota(inv[1].thresholds)
  /\ inv[1].setCalls = 1
  /\ DisabledAndRecorded

\* what the extractors yield for the response the invocation received
Extracted(i) ==
  IF impl = "legacy"
  THEN << legacyExtractUsageBytes(i.payload) >>
  ELSE << extractUsageBytes(i.payload), extractClassARequests(i.payload),
          extractClassBRequests(i.payload) >>

AllAbsent(i) == \A k \in 1..Len(Extracted(i)) : Extracted(i)[k].t # "num"

(* C16: once the usage response has been received, if extraction yields    *)
(* absent for every metric of the controller (storage, class A, class B)   *)
(* the invocation has failed with a provider-unavailable error, has called *)
(* neither getStatus, setStatus nor put, and the store holds the snapshot  *)
(* it read; if at least one metric is present the fetch has succeeded.     *)
C16_AllAbsentFails ==
  \A p \in Procs :
    inv[p].payload # Null =>
      /\ AllAbsent(inv[p]) =>
           /\ inv[p].pc = "failed" /\ inv[p].error = "ProviderUnavailable"
           /\ inv[p].getCalls = 0 /\ inv[p].setCalls = 0 /\ inv[p].putCalls = 0
           /\ inv[p].kvDone => kv = inv[p].storedState
      /\ ~AllAbsent(inv[p]) =>
           /\ inv[p].usageDone
           /\ inv[p].error # "ProviderUnavailable"
           /\ \E k \in 1..Len(Extracted(inv[p])) :
                Extracted(inv[p])[k] \in {inv[p].usage.storageBytes,
                    inv[p].usage.classARequests, inv[p].usage.classBRequests}

\* a response without any counter, received with a snapshot in the store
C16_Witness ==
  /\ impl = "multi"
  /\ inv[1].payload # Null /\ AllAbsent(inv[1])
  /\ inv[1].kvDone /\ inv[1].storedState # Null
  /\ inv[1].error = "ProviderUnavailable"
  /\ kv = inv[1].storedState

\* a quota or re-enable binding of the deployment is rejected
InvalidConfig ==
  (IF impl = "legacy" THEN legacyThresholds(env) ELSE normaliseThresholds(env)).threw

(* C17: when a quota or re-enable value is rejected as invalid, no         *)
(* invocation evaluates the metrics, calls getStatus or setStatus, writes  *)
(* the snapshot or succeeds; and an invocation fails with an invalid       *)
(* configuration error only for such a value.                              *)
C17_InvalidConfigAborts ==
  \A p \in Procs :
    /\ InvalidConfig =>
         /\ ~HasDecided(inv[p])
         /\ inv[p].pc \in {"idle", "fetch", "failed"}
         /\ inv[p].getCalls = 0 /\ inv[p].setCalls = 0 /\ inv[p].putCalls = 0
         /\ kv = Null
    /\ inv[p].error = "InvalidConfiguration" => InvalidConfig

\* the multi-metric controller aborts after the fetch, before the evaluation
C17_Witness ==
  /\ impl = "multi"
  /\ inv[1].error = "InvalidConfiguration"
  /\ inv[1].usageDone /\ inv[1].kvDone
  /\ inv[1].usage.storageBytes = Num(MaxBytes)
  /\ kv = Null

\* the list in the order f: position k holds the metric that was at f[k]
Permuted(ths, f) == [k \in 1..Len(ths) |-> ths[f[k]]]

\* a list of reasons, as a set
ReasonSet(reasons) == {reasons[k] : k \in 1..Len(reasons)}

(* C18: for every current state and every list of metric triples, the      *)
(* evaluator applied to any permutation of the list yields the same next   *)
(* state and the same set of over-quota reasons.                           *)
C18_OrderIndependent ==
  fnRet.done =>
    \A f \in Permutations(1..Len(fnArgs.thresholds)) :
      LET other == evaluate(fnArgs.currentStatus, Permuted(fnArgs.thresholds, f))
      IN /\ other.desiredStatus = fnRet.desiredStatus
         /\ ReasonSet(other.overQuotaReasons) = ReasonSet(fnRet.overQuotaReasons)

\* the over-quota metric is last in the list, first in its permutation
C18_Witness ==
  /\ fnRet.done
  /\ Len(fnArgs.thresholds) = MaxMetrics
  /\ ~SaidOverQuota(fnArgs.thresholds[1])
  /\ SaidBlocksReenable(fnArgs.thresholds[1])
  /\ SaidOverQuota(fnArgs.thresholds[MaxMetrics])
  /\ fnArgs.currentStatus = "enabled"
  /\ fnRet.desiredStatus = "disabled"

\* the decision as a function of configuration, fetched usage and toggle state
DecisionOf(toggleState, i) ==
  IF impl = "legacy" THEN legacyEvaluate(toggleState, Observed(i))
  ELSE evaluate(toggleState, Observed(i))

(* C19: an invocation that read a snapshot decides from the configuration, *)
(* the fetched usage and the snapshot's toggle state alone: its next       *)
(* state, its reason lists (the message built from them) and its setStatus *)
(* call or the absence of one are the same for every stored usage, stored  *)
(* thresholds and stored message the snapshot may carry.                   *)
C19_OnlyToggleStateRead ==
  \A p \in Procs :
    (HasDecided(inv[p]) /\ inv[p].storedState # Null) =>
      LET i == inv[p]
          d == DecisionOf(i.storedState.accessKeyStatus, i)
      IN /\ i.desiredStatus = d.desiredStatus
         /\ i.message = d.message
         /\ i.pc = "setStatus" <=>
              (i.setCalls = 0 /\ d.desiredStatus # i.storedState.accessKeyStatus)
         /\ i.setCalls = 1 => d.desiredStatus # i.storedState.accessKeyStatus
         /\ i.setCalls \in {0, 1}

\* the snapshot carries another quota and usage and message than the invocation
C19_Witness ==
  /\ HasDecided(inv[1]) /\ inv[1].storedState # Null
  /\ inv[1].storedState.quotaBytes # inv[1].thresholds[1].quota
  /\ inv[1].storedState.lastUsageBytes = Num(MaxBytes)
  /\ inv[1].usage.storageBytes = Num(0)
  /\ inv[1].storedState.message # inv[1].message
  /\ inv[1].storedState.accessKeyStatus = "disabled"
  /\ inv[1].desiredStatus = "enabled"

(* C20: an invocation that read a snapshot takes its toggle state as the   *)
(* current state and never calls getStatus; one that found no snapshot     *)
(* goes on, calls getStatus exactly once before deciding and takes the     *)
(* status returned (the live status of the key) as the current state; the  *)
(* state persisted is always enabled or disabled.                          *)
C20_PriorStateResolution ==
  /\ kv # Null => kv.accessKeyStatus \in Status
  /\ \A p \in Procs :
       LET i == inv[p]
       IN /\ i.getCalls \in {0, 1}
          /\ i.getCalls = 1 => (i.kvDone /\ i.storedState = Null)
          /\ i.pc = "getStatus" => (i.storedState = Null /\ i.getCalls = 0 /\ i.error = "")
          /\ HasDecided(i) =>
               /\ i.currentStatus \in Status
               /\ i.storedState # Null =>
                    (i.currentStatus = i.storedState.accessKeyStatus /\ i.getCalls = 0)
               /\ i.storedState = Null =>
                    /\ i.getCalls = 1
                    /\ i.setCalls = 0 => i.currentStatus = live

\* no snapshot: one getStatus call, then success, and a snapshot is stored
C20_Witness ==
  /\ inv[1].pc = "done"
  /\ inv[1].storedState = Null
  /\ inv[1].getCalls = 1
  /\ inv[1].currentStatus = "disabled"
  /\ kv # Null /\ kv.accessKeyStatus \in Status

\* the entries of a reason list that name the metric
EntriesFor(reasons, name) == {k \in 1..Len(reasons) : reasons[k].metric = name}

(* C21: the over-quota reason list has exactly one entry for each metric   *)
(* with quota and usage present and usage >= quota, with that usage and    *)
(* quota, and none for any other metric; when the next state is disabled   *)
(* for that reason the disabling message carries the whole list.           *)
C21_AllOverQuotaReported ==
  fnRet.done =>
    LET ths == fnArgs.thresholds
        over == {i \in 1..Len(ths) : SaidOverQuota(ths[i])}
    IN /\ Len(fnRet.overQuotaReasons) = Cardinality(over)
       /\ \A i \in 1..Len(ths) :
            LET mine == EntriesFor(fnRet.overQuotaReasons, ths[i].name)
            IN IF i \in over
               THEN /\ Cardinality(mine) = 1
                    /\ \A k \in mine :
                         /\ fnRet.overQuotaReasons[k].usage = ths[i].usage.n
                         /\ fnRet.overQuotaReasons[k].bound = ths[i].quota.n
               ELSE mine = {}
       /\ over # {} =>
            /\ fnRet.message.form = "Disabling access key"
            /\ fnRet.message.reasons = fnRet.overQuotaReasons

\* every metric of a full list is over its quota and every one is reported
C21_Witness ==
  /\ fnRet.done
  /\ Len(fnArgs.thresholds) = MaxMetrics
  /\ \A i \in 1..MaxMetrics : SaidOverQuota(fnArgs.thresholds[i])
  /\ Len(fnRet.message.reasons) = MaxMetrics
  /\ fnRet.message.form = "Disabling access key"

(* C22: the message has the "Disabling access key" form exactly when the   *)
(* next state is disabled with at least one over-quota reason, the         *)
(* "Re-enabling access key" form exactly when the state goes from disabled *)
(* to enabled, and the "Keeping access key <state>" form otherwise; in the *)
(* Keeping form the next state equals the current state, <state> is that   *)
(* state, and the text is "no thresholds configured" exactly when there is *)
(* no reason to join.                                                      *)
C22_MessageMatchesDecision ==
  fnRet.done =>
    LET m == fnRet.message
        current == fnArgs.currentStatus
        next == fnRet.desiredStatus
        disabling == next = "disabled" /\ AnyOverQuota(fnArgs.thresholds)
        reenabling == current = "disabled" /\ next = "enabled"
    IN /\ m.form = "Disabling access key" <=> disabling
       /\ m.form = "Re-enabling access key" <=> reenabling
       /\ m.form = "Keeping access key" <=> (~disabling /\ ~reenabling)
       /\ m.form = "Keeping access key" =>
            /\ next = current
            /\ m.status = next
            /\ m.noThresholds <=>
                 (Len(fnRet.overQuotaReasons) = 0 /\ Len(fnRet.reenableChecks) = 0)
            /\ m.reasons = fnRet.overQuotaReasons \o fnRet.reenableChecks
       /\ m.form = "Re-enabling access key" => m.reasons = fnRet.reenableChecks

\* an already disabled key over its quota: the Disabling form, not the Keeping one
C22_Witness ==
  /\ fnRet.done
  /\ fnArgs.currentStatus = "disabled"
  /\ fnRet.desiredStatus = "disabled"
  /\ AnyOverQuota(fnArgs.thresholds)
  /\ fnRet.message.form = "Disabling access key"

(* C23: for every current state, storage usage, storage quota and          *)
(* re-enable threshold with reenable <= quota, class A and class B usage   *)
(* being absent, the legacy controller and the multi-metric controller     *)
(* decide the same next state and both call setStatus with it, or neither  *)
(* does.                                                                   *)
C23_LegacyAgreesWithMulti ==
  fnRet.done =>
    /\ fnRet.legacy.desiredStatus = fnRet.multi.desiredStatus
    /\ fnRet.legacy.pc \in {"setStatus", "put"}
    /\ fnRet.legacy.pc = fnRet.multi.pc

\* both hold a disabled key disabled inside the band, and neither calls setStatus
C23_Witness ==
  /\ fnRet.done
  /\ fnArgs.currentStatus = "disabled"
  /\ fnArgs.reenable.n < fnArgs.usage.n /\ fnArgs.usage.n < fnArgs.quota.n
  /\ fnRet.legacy.desiredStatus = "disabled" /\ fnRet.multi.desiredStatus = "disabled"
  /\ fnRet.legacy.pc = "put" /\ fnRet.multi.pc = "put"

\* the invocation has returned or thrown
Ended(i) == i.pc \in {"done", "failed"}

(* C25: with invocations run one at a time, the put never failing and      *)
(* setStatus allowed to fail, at the end of every invocation, successful   *)
(* or failed, and until the next one writes, a persisted snapshot has the  *)
(* toggle state that is the live status of the key.                        *)
C25_SnapshotTracksKey ==
  ((Ended(inv[1]) \/ inv[1].pc \in {"idle", "fetch", "getStatus"}) /\ kv # Null) =>
    kv.accessKeyStatus = live

\* a failed re-enable: the key and the snapshot both stay disabled
C25_Witness ==
  /\ inv[1].pc = "failed"
  /\ ToggleFailed(inv[1])
  /\ inv[1].desiredStatus = "enabled"
  /\ kv # Null /\ kv.accessKeyStatus = "disabled"
  /\ live = "disabled"

\* the invocation fetched the usage that the snapshot it read records
SameUsageAsStored(i) ==
  /\ i.storedState # Null
  /\ i.storedState.lastUsageBytes = i.usage.storageBytes
  /\ impl = "multi" =>
       /\ i.storedState.lastClassARequests = i.usage.classARequests
       /\ i.storedState.lastClassBRequests = i.usage.classBRequests

(* C26: for the metric list of every invocation and every state s, the     *)
(* decision applied to its own result gives that result again; and an      *)
(* invocation that follows a successful one with the same configuration    *)
(* and usage decides the state already persisted, calls setStatus not at   *)
(* all, and persists the same toggle state.                                *)
C26_DecisionIdempotent ==
  \A p \in Procs :
    LET i == inv[p]
    IN HasDecided(i) =>
         /\ \A s \in Status :
              LET once == DecisionOf(s, i).desiredStatus
              IN DecisionOf(once, i).desiredStatus = once
         /\ SameUsageAsStored(i) =>
              /\ i.desiredStatus = i.storedState.accessKeyStatus
              /\ i.setCalls = 0
              /\ i.pc # "setStatus"
              /\ i.pc = "done" => kv.accessKeyStatus = i.storedState.accessKeyStatus

\* the first run disabled the key, the second sees the same usage and calls nothing
C26_Witness ==
  /\ inv[1].pc = "done"
  /\ SameUsageAsStored(inv[1])
  /\ inv[1].storedState.accessKeyStatus = "disabled"
  /\ AnyOverQuota(inv[1].thresholds)
  /\ inv[1].setCalls = 0
  /\ kv.accessKeyStatus = "disabled"

\* the fields of an object and the elements of an array, in their order
Children(value) ==
  IF value.t = "object" THEN value.f
  ELSE IF value.t = "array" THEN [k \in 1..Len(value.f) |-> [key |-> "", val |-> value.f[k]]]
  ELSE <<>>

RECURSIVE PreOrder(_)
RECURSIVE PreOrderFrom(_, _)

PreOrderFrom(children, k) ==
  IF k > Len(children) THEN <<>>
  ELSE << children[k] >> \o PreOrder(children[k].val) \o PreOrderFrom(children, k + 1)

\* every named value of the tree, a parent before its children, in document order
PreOrder(value) == PreOrderFrom(Children(value), 1)

\* the first finite number of the traversal stored under a candidate name
FirstMatch(start, keys) ==
  LET visited == PreOrder(start)
      hits == {k \in 1..Len(visited) :
                 /\ \E c \in 1..Len(keys) : keys[c] = visited[k].key
                 /\ visited[k].val.t = "num"}
  IN IF hits = {} THEN Undefined
     ELSE visited[CHOOSE k \in hits : \A other \in hits : k <= other].val

HasResult(payload) ==
  payload.t = "object" /\ \E k \in 1..Len(payload.f) : payload.f[k].key = "result"

ResultOf(payload) ==
  payload.f[CHOOSE k \in 1..Len(payload.f) : payload.f[k].key = "result"].val

Reversed(keys) == [k \in 1..Len(keys) |-> keys[Len(keys) + 1 - k]]

(* C24 as stated: extract returns the first finite number stored under a   *)
(* candidate name in the pre-order traversal that starts from the result   *)
(* field when the payload has one and from the whole payload otherwise,    *)
(* absent exactly when there is none, whatever the order of the candidate  *)
(* list.                                                                   *)
C24_FirstInPreOrder ==
  fnRet.done =>
    /\ fnRet.value = FirstMatch(IF HasResult(fnArgs.payload) THEN ResultOf(fnArgs.payload)
                                ELSE fnArgs.payload, fnArgs.keys)
    /\ extractMetric(fnArgs.payload, Reversed(fnArgs.keys)) = fnRet.value

(* C24 amended: a payload that is itself a finite number is returned as    *)
(* is; otherwise extract returns the first finite number stored under a    *)
(* candidate name in the pre-order traversal that starts from the result   *)
(* field when the payload has one whose value is not null, and from the    *)
(* whole payload otherwise, absent exactly when there is none, whatever    *)
(* the order of the candidate list.                                        *)
C24_FirstInPreOrderFromNonNullResult ==
  fnRet.done =>
    /\ fnRet.value =
         IF fnArgs.payload.t = "num" THEN fnArgs.payload
         ELSE FirstMatch(IF HasResult(fnArgs.payload) /\ ResultOf(fnArgs.payload) # Null
                         THEN ResultOf(fnArgs.payload)
                         ELSE fnArgs.payload, fnArgs.keys)
    /\ extractMetric(fnArgs.payload, Reversed(fnArgs.keys)) = fnRet.value

\* a candidate outside the envelope comes first and is passed over for the one inside
C24_Witness ==
  /\ fnRet.done
  /\ fnArgs.keys = CANDIDATE_USAGE_KEYS
  /\ fnArgs.payload = Obj(<< Field("usageBytes", Num(2)),
                             Field("result", Obj(<< Field("storedBytes", Num(1)) >>)) >>)
  /\ fnRet.value = Num(1)

====
